---- MODULE Spec2Model ----
(***************************************************************************)
(* Gaussian process regression engine (gpr::GaussianProcess<float>).       *)
(* State: the fields of each GaussianProcess object, the four files that   *)
(* Save writes under one prefix, and the outcome of the last call.         *)
(***************************************************************************)
EXTENDS Integers, Sequences, FiniteSets, TLC

(***************************************************************************)
(* Bounds of the model.                                                    *)
(***************************************************************************)
MaxSamples == 2

(***************************************************************************)
(* Scalars.  TScalarType = float: a scalar is 0 or a float of [1,2),       *)
(* written as its multiple of 2^-23 (the spacing of floats in [1,2)).      *)
(***************************************************************************)
MantBits == 23
Digits10 == 6

RECURSIVE Pow(_, _)
Pow(b, e) == IF e = 0 THEN 1 ELSE b * Pow(b, e - 1)

Ulp == Pow(2, MantBits)

Zero == 0
One == Ulp
OnePlusUlp == Ulp + 1

RoundDiv(a, b) == (2 * a + b) \div (2 * b)

\* operator<< on a scalar after setprecision(digits10 + 1): the decimal with
\* digits10 + 1 significant digits, as a multiple of 10^-digits10.
FormatScalar(u) ==
    IF u = Zero THEN 0
    ELSE Pow(10, Digits10) + RoundDiv((u - Ulp) * Pow(10, Digits10), Ulp)

\* operator>> into a scalar: the float nearest to the decimal.
ParseScalar(d) ==
    IF d = 0 THEN Zero
    ELSE Ulp + RoundDiv((d - Pow(10, Digits10)) * Ulp, Pow(10, Digits10))

(***************************************************************************)
(* Vectors are sequences of scalars; x.size() is Len(x).                   *)
(***************************************************************************)
InputVectors == {<<Zero>>, <<One>>, <<Zero, Zero>>}

LabelVectors == {<<Zero>>, <<Zero, Zero>>}

\* one vector of each input dimension
DimVectors == {<<Zero>>, <<Zero, Zero>>}

(***************************************************************************)
(* Kernels: a type name and a parameter vector.                            *)
(***************************************************************************)
GaussianKernel(sigma, scale) == [name |-> "GaussianKernel", params |-> <<sigma, scale>>]
PeriodicKernel(scale, b, sigma) == [name |-> "PeriodicKernel", params |-> <<scale, b, sigma>>]
WhiteKernel(scale) == [name |-> "WhiteKernel", params |-> <<scale>>]

KernelEquals(a, b) == a.name = b.name /\ a.params = b.params

(***************************************************************************)
(* Matrices.  A regression matrix is its shape and its value; the value of *)
(* K.inverse() * Y is kept as the operands it was computed from.           *)
(***************************************************************************)
EmptyMatrix == [rows |-> 0, cols |-> 0, val |-> <<>>]
GarbageMatrix(r, c) == [rows |-> r, cols |-> c, val |-> <<"garbage">>]

InversionMethods == {"FullPivotLU", "JacobiSVD"}

Models == {1, 2}

Files == {"rv", "sv", "lv", "pf"}

Threads == {1, 2}

\* the owner of an unlocked gp_lock
NoThread == 0

\* gp, disk, result: the models, the files under the prefix, the last call;
\* gp_lock: the owner of each model's mutex; thread: where each caller
\* thread stands in its current call; omp: the parallel region of
\* ComputeKernelMatrix
VARIABLES gp, disk, result, gp_lock, thread, omp

vars == <<gp, disk, result, gp_lock, thread, omp>>

\* what a call made by a single caller thread leaves alone
concurrent == <<gp_lock, thread, omp>>

\* a caller thread between two calls
Idle == [pc |-> "idle", x |-> <<>>, y |-> <<>>, K |-> <<>>]

\* no parallel region open
NoRegion == [worker |-> <<>>, M |-> <<>>, writes |-> <<>>, writers |-> <<>>, evals |-> <<>>]

Unlocked ==
    /\ gp_lock = [i \in Models |-> NoThread]
    /\ thread = [t \in Threads |-> Idle]
    /\ omp = NoRegion

(***************************************************************************)
(* GaussianProcess(kernel): the state after construction.                  *)
(***************************************************************************)
NewGaussianProcess(kernel) ==
    [m_Kernel |-> kernel,
     m_Sigma |-> Zero,
     m_SampleVectors |-> <<>>,
     m_LabelVectors |-> <<>>,
     m_RegressionVectors |-> EmptyMatrix,
     m_Initialized |-> FALSE,
     m_InputDimension |-> 0,
     m_OutputDimension |-> 0,
     m_InvMethod |-> "FullPivotLU",
     m_EfficientStorage |-> FALSE,
     debug |-> FALSE]

AbsentFile == [exists |-> FALSE, content |-> <<>>]

AbsentMatrixFile == [exists |-> FALSE, content |-> EmptyMatrix]

File(c) == [exists |-> TRUE, content |-> c]

EmptyDisk == [rv |-> AbsentMatrixFile, sv |-> AbsentFile, lv |-> AbsentFile, pf |-> AbsentFile]

Outcome(g, s) == [g |-> g, status |-> s]

(***************************************************************************)
(* Dimension checks: TRUE when the check passes (no throw).                *)
(***************************************************************************)
CheckInputDimension(g, x) == Len(x) = g.m_InputDimension

\* CheckOutputDimension with the comparison left out
CheckOutputDimensionSkipped(g, y) == TRUE

CheckOutputDimension(g, y) == Len(y) = g.m_OutputDimension

(***************************************************************************)
(* AddSample(x, y)                                                         *)
(***************************************************************************)
AddSampleOutcome(g, x, y) ==
    LET g1 == IF Len(g.m_SampleVectors) = 0
              THEN [g EXCEPT !.m_InputDimension = Len(x)] ELSE g
        g2 == IF Len(g1.m_LabelVectors) = 0
              THEN [g1 EXCEPT !.m_OutputDimension = Len(y)] ELSE g1
    IN  IF ~CheckInputDimension(g2, x) THEN Outcome(g2, "DimensionMismatch")
        ELSE IF ~CheckOutputDimension(g2, y) THEN Outcome(g2, "DimensionMismatch")
        ELSE Outcome([g2 EXCEPT !.m_SampleVectors = Append(@, x),
                                !.m_LabelVectors = Append(@, y),
                                !.m_Initialized = FALSE], "ok")

(***************************************************************************)
(* Setters of the header.                                                  *)
(***************************************************************************)
SetKernelOutcome(g, k) ==
    Outcome([g EXCEPT !.m_Kernel = k, !.m_Initialized = FALSE], "ok")

\* SetSigma without the reset of m_Initialized
SetSigmaKeepsFlag(g, sigma) == Outcome([g EXCEPT !.m_Sigma = sigma], "ok")

SetSigmaOutcome(g, sigma) ==
    Outcome([g EXCEPT !.m_Sigma = sigma, !.m_Initialized = FALSE], "ok")

SetInversionMethodOutcome(g, m) == Outcome([g EXCEPT !.m_InvMethod = m], "ok")

SetEfficientStorageOutcome(g, s) == Outcome([g EXCEPT !.m_EfficientStorage = s], "ok")

DebugOnOutcome(g) == Outcome([g EXCEPT !.debug = TRUE], "ok")

(***************************************************************************)
(* Training.  K is n x n over the samples, Y is m x d over the labels with *)
(* d the size of the first label; K.inverse() * Y needs n = m, and the row *)
(* copies into Y need every label to have size d.  Outside of that the     *)
(* matrix operations are undefined: the run aborts or yields garbage.      *)
(***************************************************************************)
SameSize(vs) == \A i \in 1..Len(vs) : Len(vs[i]) = Len(vs[1])

ComputeLabelMatrixDefined(g) == SameSize(g.m_LabelVectors)

ComputeRegressionVectors(g) ==
    LET n == Len(g.m_SampleVectors)
        d == Len(g.m_LabelVectors[1])
    IN  IF n = Len(g.m_LabelVectors) /\ ComputeLabelMatrixDefined(g)
        THEN {Outcome([g EXCEPT !.m_RegressionVectors =
                          [rows |-> n, cols |-> d,
                           val |-> <<g.m_SampleVectors, g.m_Kernel, g.m_Sigma,
                                     g.m_LabelVectors>>]], "ok")}
        ELSE {Outcome(g, "abort"),
              Outcome([g EXCEPT !.m_RegressionVectors = GarbageMatrix(n, d)], "ok")}

\* Initialize without the final m_Initialized = true
InitializeForgetsFlag(g) ==
    IF g.m_Initialized THEN {Outcome(g, "ok")}
    ELSE IF ~(Len(g.m_SampleVectors) > 0) THEN {Outcome(g, "NotInitialized")}
    ELSE IF ~(Len(g.m_LabelVectors) > 0) THEN {Outcome(g, "NotInitialized")}
    ELSE ComputeRegressionVectors(g)

InitializeOutcomes(g) ==
    IF g.m_Initialized THEN {Outcome(g, "ok")}
    ELSE IF ~(Len(g.m_SampleVectors) > 0) THEN {Outcome(g, "NotInitialized")}
    ELSE IF ~(Len(g.m_LabelVectors) > 0) THEN {Outcome(g, "NotInitialized")}
    ELSE {IF o.status = "ok" THEN Outcome([o.g EXCEPT !.m_Initialized = TRUE], "ok")
          ELSE o : o \in ComputeRegressionVectors(g)}

(***************************************************************************)
(* Prediction.  The kernel vector has one entry per row of the regression  *)
(* matrix and reads m_SampleVectors[i] for each of them.                   *)
(***************************************************************************)
ComputeKernelVectorDefined(g) == g.m_RegressionVectors.rows <= Len(g.m_SampleVectors)

ComputeDifferenceMatrixDefined(g, x) ==
    \A i \in 1..Len(g.m_SampleVectors) : Len(g.m_SampleVectors[i]) = Len(x)

PredictOutcomes(g, x) ==
    UNION {IF o.status # "ok" THEN {o}
           ELSE IF ~CheckInputDimension(o.g, x) THEN {Outcome(o.g, "DimensionMismatch")}
           ELSE IF ~o.g.m_Initialized THEN {Outcome(o.g, "NotInitialized")}
           ELSE IF ComputeKernelVectorDefined(o.g) THEN {Outcome(o.g, "ok")}
           ELSE {Outcome(o.g, "abort"), Outcome(o.g, "ok")}
             : o \in InitializeOutcomes(g)}

PredictDerivativeOutcomes(g, x) ==
    UNION {IF o.status # "ok" THEN {o}
           ELSE IF ~CheckInputDimension(o.g, x) THEN {Outcome(o.g, "DimensionMismatch")}
           ELSE IF ~o.g.m_Initialized THEN {Outcome(o.g, "NotInitialized")}
           ELSE IF /\ ComputeKernelVectorDefined(o.g)
                   /\ ComputeDifferenceMatrixDefined(o.g, x)
                   /\ o.g.m_RegressionVectors.rows = Len(o.g.m_SampleVectors)
                   /\ o.g.m_OutputDimension <= o.g.m_RegressionVectors.cols
                THEN {Outcome(o.g, "ok")}
           ELSE {Outcome(o.g, "abort"), Outcome(o.g, "ok")}
             : o \in InitializeOutcomes(g)}

\* the value Predict returns, (Kx.adjoint() * m_RegressionVectors).adjoint():
\* the kernel vector over the first rows() samples and the coefficients; with
\* fewer samples than rows the kernel vector is read past the store and the
\* value is whatever was found there
PredictReturns(g, x) ==
    IF ComputeKernelVectorDefined(g)
    THEN {[Kx |-> [i \in 1..g.m_RegressionVectors.rows |->
                      <<g.m_Kernel, x, g.m_SampleVectors[i]>>],
           R |-> g.m_RegressionVectors]}
    ELSE {[Kx |-> <<>>, R |-> GarbageMatrix(r, r)] : r \in {0, 1}}

\* PredictDerivative returns the same expression after filling D
PredictDerivativeReturns(g, x) == PredictReturns(g, x)

(***************************************************************************)
(* Save(prefix).  The sample and label matrices have one column per stored *)
(* vector and as many rows as the first one; the block copy of a vector of *)
(* another size, and m_SampleVectors[0] of an empty store, are undefined.  *)
(* The matrix files hold the matrices exactly; the parameter file is one   *)
(* line of tokens, its scalars written with digits10 + 1 digits.           *)
(***************************************************************************)
Fit(v, n, pad) == [i \in 1..n |-> IF i <= Len(v) THEN v[i] ELSE pad]

GarbageScalars == {Zero}

ColumnMatrices(vs) ==
    IF Len(vs) = 0 THEN {<<>>}
    ELSE IF SameSize(vs) THEN {vs}
    ELSE {[i \in 1..Len(vs) |-> Fit(vs[i], Len(vs[1]), pad)] : pad \in GarbageScalars}

ColumnMatrixDefined(vs) == Len(vs) > 0 /\ SameSize(vs)

ParameterLine(g) ==
    <<g.m_Kernel.name, Len(g.m_Kernel.params)>>
    \o [i \in 1..Len(g.m_Kernel.params) |-> FormatScalar(g.m_Kernel.params[i])]
    \o <<FormatScalar(g.m_Sigma), g.m_InputDimension, g.m_OutputDimension,
         IF g.debug THEN 1 ELSE 0>>

SaveWrites(g, d) ==
    {[d EXCEPT !.rv = File(g.m_RegressionVectors),
               !.sv = File(X),
               !.lv = File(Y),
               !.pf = File(ParameterLine(g))]
       : X \in ColumnMatrices(g.m_SampleVectors), Y \in ColumnMatrices(g.m_LabelVectors)}

\* Save without the m_Initialized check
SaveUnchecked(g, d) ==
    {[g |-> g, status |-> "ok", disk |-> w] : w \in SaveWrites(g, d)}

SaveOutcomes(g, d) ==
    IF ~g.m_Initialized THEN {[g |-> g, status |-> "PreconditionViolation", disk |-> d]}
    ELSE {[g |-> g, status |-> "ok", disk |-> w] : w \in SaveWrites(g, d)}
         \cup (IF ColumnMatrixDefined(g.m_SampleVectors)
                   /\ ColumnMatrixDefined(g.m_LabelVectors)
                THEN {}
                ELSE {[g |-> g, status |-> "abort",
                       disk |-> [d EXCEPT !.rv = File(g.m_RegressionVectors)]]})

(***************************************************************************)
(* Load(prefix): the fields are assigned as the files are read, in the     *)
(* order regression vectors, samples, labels, parameter line, kernel,      *)
(* flag; every throw leaves what was assigned before it.                   *)
(***************************************************************************)
Min(a, b) == IF a < b THEN a ELSE b

Max(a, b) == IF a < b THEN b ELSE a

LoadParameters(g, toks) ==
    LET has(i) == i <= Len(toks)
        gotLine == Len(toks) > 0
        kernel_type == IF gotLine THEN toks[1] ELSE ""
        num_kernel_parameters == IF has(2) THEN toks[2] ELSE 0
        kernel_parameters ==
            [p \in 1..Max(0, Min(num_kernel_parameters, Len(toks) - 2))
               |-> ParseScalar(toks[2 + p])]
        load == has(2) /\ has(2 + num_kernel_parameters)
        at == 2 + num_kernel_parameters
        g1 == IF load /\ has(at + 1)
              THEN [g EXCEPT !.m_Sigma = ParseScalar(toks[at + 1])] ELSE g
        g2 == IF load /\ has(at + 2)
              THEN [g1 EXCEPT !.m_InputDimension = toks[at + 2]] ELSE g1
        g3 == IF load /\ has(at + 3)
              THEN [g2 EXCEPT !.m_OutputDimension = toks[at + 3]] ELSE g2
        g4 == IF load /\ has(at + 4)
              THEN [g3 EXCEPT !.debug = (toks[at + 4] = 1)] ELSE g3
    IN  IF gotLine /\ ~(load /\ has(at + 4)) THEN Outcome(g4, "PersistenceCorrupt")
        ELSE IF kernel_type = "GaussianKernel"
        THEN IF Len(kernel_parameters) # 2 THEN Outcome(g4, "UnknownKernel")
             ELSE Outcome([g4 EXCEPT
                     !.m_Kernel = GaussianKernel(kernel_parameters[1], kernel_parameters[2]),
                     !.m_Initialized = TRUE], "ok")
        ELSE IF kernel_type = "PeriodicKernel"
        THEN IF Len(kernel_parameters) # 3 THEN Outcome(g4, "UnknownKernel")
             ELSE Outcome([g4 EXCEPT
                     !.m_Kernel = PeriodicKernel(kernel_parameters[1], kernel_parameters[2],
                                                 kernel_parameters[3]),
                     !.m_Initialized = TRUE], "ok")
        ELSE Outcome(g4, "UnknownKernel")

\* Load that sets m_Initialized before the files are read
LoadFlagFirst(g, d) ==
    LET g0 == [g EXCEPT !.m_Initialized = TRUE] IN
    IF ~d.rv.exists THEN Outcome(g0, "PersistenceMissing")
    ELSE LET g1 == [g0 EXCEPT !.m_RegressionVectors = d.rv.content] IN
    IF ~d.sv.exists THEN Outcome(g1, "PersistenceMissing")
    ELSE LET g2 == [g1 EXCEPT !.m_SampleVectors = d.sv.content] IN
    IF ~d.lv.exists THEN Outcome(g2, "PersistenceMissing")
    ELSE LET g3 == [g2 EXCEPT !.m_LabelVectors = d.lv.content] IN
    IF ~d.pf.exists THEN Outcome(g3, "PersistenceMissing")
    ELSE LoadParameters(g3, d.pf.content)

LoadOutcome(g, d) ==
    IF ~d.rv.exists THEN Outcome(g, "PersistenceMissing")
    ELSE LET g1 == [g EXCEPT !.m_RegressionVectors = d.rv.content] IN
    IF ~d.sv.exists THEN Outcome(g1, "PersistenceMissing")
    ELSE LET g2 == [g1 EXCEPT !.m_SampleVectors = d.sv.content] IN
    IF ~d.lv.exists THEN Outcome(g2, "PersistenceMissing")
    ELSE LET g3 == [g2 EXCEPT !.m_LabelVectors = d.lv.content] IN
    IF ~d.pf.exists THEN Outcome(g3, "PersistenceMissing")
    ELSE LoadParameters(g3, d.pf.content)

(***************************************************************************)
(* operator==.  Each comparison is "same", "differ" or, for a difference   *)
(* of two matrices or vectors of unequal shape (undefined), any of "same", *)
(* "differ" and "abort".  The comparisons run in the order of the code and *)
(* the first "differ" returns false.                                       *)
(***************************************************************************)
Cmp(b) == IF b THEN {"same"} ELSE {"differ"}

Undefined == {"same", "differ", "abort"}

MatrixNorm(A, B) ==
    IF A.rows = B.rows /\ A.cols = B.cols THEN Cmp(A.val = B.val) ELSE Undefined

VectorNorm(u, v) == IF Len(u) = Len(v) THEN Cmp(u = v) ELSE Undefined

\* the outcomes of running the comparisons cs[1], cs[2], ... in order
RECURSIVE Chain(_)
Chain(cs) ==
    IF Len(cs) = 0 THEN {"true"}
    ELSE (IF "differ" \in cs[1] THEN {"false"} ELSE {})
         \cup (IF "abort" \in cs[1] THEN {"abort"} ELSE {})
         \cup (IF "same" \in cs[1] THEN Chain(Tail(cs)) ELSE {})

VectorListCompare(us, vs) ==
    IF Len(us) # Len(vs) THEN <<{"differ"}>>
    ELSE [i \in 1..Len(us) |-> VectorNorm(us[i], vs[i])]

EqualOutcomes(a, b) ==
    Chain(<<MatrixNorm(a.m_RegressionVectors, b.m_RegressionVectors)>>
          \o VectorListCompare(a.m_SampleVectors, b.m_SampleVectors)
          \o VectorListCompare(a.m_LabelVectors, b.m_LabelVectors)
          \o <<Cmp(KernelEquals(a.m_Kernel, b.m_Kernel)),
               Cmp(a.m_Sigma = b.m_Sigma),
               Cmp(a.m_Initialized = b.m_Initialized),
               Cmp(a.m_InputDimension = b.m_InputDimension),
               Cmp(a.m_OutputDimension = b.m_OutputDimension),
               Cmp(a.debug = b.debug)>>)

(***************************************************************************)
(* Actions: one call on model i, or one change of the files from outside.  *)
(* After an abort the process is gone and nothing more happens.            *)
(***************************************************************************)
Running == result.status # "abort"

Apply(i, op, o) ==
    /\ gp' = [gp EXCEPT ![i] = o.g]
    /\ result' = [op |-> op, status |-> o.status]
    /\ UNCHANGED disk
    /\ UNCHANGED concurrent

AddSample(i, x, y) ==
    /\ Running
    /\ Len(gp[i].m_SampleVectors) < MaxSamples
    /\ Len(gp[i].m_LabelVectors) < MaxSamples
    /\ Apply(i, "AddSample", AddSampleOutcome(gp[i], x, y))

SetKernel(i, k) == Running /\ Apply(i, "SetKernel", SetKernelOutcome(gp[i], k))

SetSigma(i, sigma) == Running /\ Apply(i, "SetSigma", SetSigmaOutcome(gp[i], sigma))

SetInversionMethod(i, m) ==
    Running /\ Apply(i, "SetInversionMethod", SetInversionMethodOutcome(gp[i], m))

SetEfficientStorage(i, s) ==
    Running /\ Apply(i, "SetEfficientStorage", SetEfficientStorageOutcome(gp[i], s))

DebugOn(i) == Running /\ Apply(i, "DebugOn", DebugOnOutcome(gp[i]))

Initialize(i) ==
    Running /\ \E o \in InitializeOutcomes(gp[i]) : Apply(i, "Initialize", o)

Predict(i, x) ==
    Running /\ \E o \in PredictOutcomes(gp[i], x) : Apply(i, "Predict", o)

PredictDerivative(i, x) ==
    Running /\ \E o \in PredictDerivativeOutcomes(gp[i], x) : Apply(i, "PredictDerivative", o)

Save(i) ==
    /\ Running
    /\ \E o \in SaveOutcomes(gp[i], disk) :
          /\ gp' = [gp EXCEPT ![i] = o.g]
          /\ result' = [op |-> "Save", status |-> o.status]
          /\ disk' = o.disk
    /\ UNCHANGED concurrent

\* The files found under the prefix: those written by the last Save, without
\* the ones in `missing`, the parameter line cut after its first `cut` tokens.
FilesFound(d, missing, cut) ==
    [rv |-> IF "rv" \in missing THEN AbsentMatrixFile ELSE d.rv,
     sv |-> IF "sv" \in missing THEN AbsentFile ELSE d.sv,
     lv |-> IF "lv" \in missing THEN AbsentFile ELSE d.lv,
     pf |-> IF "pf" \in missing THEN AbsentFile
            ELSE [d.pf EXCEPT !.content = SubSeq(@, 1, Min(cut, Len(@)))]]

Load(i, missing, cut) ==
    Running /\ Apply(i, "Load", LoadOutcome(gp[i], FilesFound(disk, missing, cut)))

Compare(i, j) ==
    /\ Running
    /\ \E r \in EqualOutcomes(gp[i], gp[j]) : result' = [op |-> "Compare", status |-> r]
    /\ UNCHANGED <<gp, disk>>
    /\ UNCHANGED concurrent

(***************************************************************************)
(* Caller threads.  A call of AddSample or Predict by thread t on model i  *)
(* is the sequence of its statements, one step each, so that the calls of  *)
(* two threads interleave statement by statement.  Lock and UnLock are the *)
(* only members that touch gp_lock.                                        *)
(***************************************************************************)
At(t, pc) == thread[t].pc = pc

Goto(t, pc) == thread' = [thread EXCEPT ![t].pc = pc]

Return(t, op, status) ==
    /\ thread' = [thread EXCEPT ![t] = Idle]
    /\ result' = [op |-> op, status |-> status]

Lock(t, i) ==
    /\ Running /\ At(t, "idle")
    /\ gp_lock[i] = NoThread
    /\ gp_lock' = [gp_lock EXCEPT ![i] = t]
    /\ UNCHANGED <<gp, disk, result, thread, omp>>

UnLock(t, i) ==
    /\ Running /\ At(t, "idle")
    /\ gp_lock[i] = t
    /\ gp_lock' = [gp_lock EXCEPT ![i] = NoThread]
    /\ UNCHANGED <<gp, disk, result, thread, omp>>

\* another thread is about to push_back on the sample (label) store: a read
\* of that store by t is then unordered with the write, a data race, and
\* the read may find the vector mid-reallocation
SampleRace(t) == \E u \in Threads \ {t} : At(u, "AddSample:push_x")

LabelRace(t) == \E u \in Threads \ {t} : At(u, "AddSample:push_y")

Abort(t, op) ==
    /\ result' = [op |-> op, status |-> "abort"]
    /\ UNCHANGED thread

CallAddSample(t, i, x, y) ==
    /\ Running /\ At(t, "idle")
    /\ Len(gp[i].m_SampleVectors) < MaxSamples
    /\ Len(gp[i].m_LabelVectors) < MaxSamples
    /\ thread' = [thread EXCEPT ![t] = [Idle EXCEPT !.pc = "AddSample:dims", !.x = x, !.y = y]]
    /\ UNCHANGED <<gp, disk, result, gp_lock, omp>>

\* AddSample, statement by statement
AddSampleDims(t, i) ==
    /\ Running /\ At(t, "AddSample:dims")
    /\ gp' = [gp EXCEPT ![i] =
                 LET g1 == IF Len(@.m_SampleVectors) = 0
                           THEN [@ EXCEPT !.m_InputDimension = Len(thread[t].x)] ELSE @
                 IN  IF Len(g1.m_LabelVectors) = 0
                     THEN [g1 EXCEPT !.m_OutputDimension = Len(thread[t].y)] ELSE g1]
    /\ Goto(t, "AddSample:check")
    /\ UNCHANGED <<disk, result, gp_lock, omp>>

AddSampleCheck(t, i) ==
    /\ Running /\ At(t, "AddSample:check")
    /\ IF CheckInputDimension(gp[i], thread[t].x) /\ CheckOutputDimension(gp[i], thread[t].y)
       THEN Goto(t, "AddSample:push_x") /\ UNCHANGED result
       ELSE Return(t, "AddSample", "DimensionMismatch")
    /\ UNCHANGED <<gp, disk, gp_lock, omp>>

AddSamplePushX(t, i) ==
    /\ Running /\ At(t, "AddSample:push_x")
    /\ gp' = [gp EXCEPT ![i].m_SampleVectors = Append(@, thread[t].x)]
    /\ Goto(t, "AddSample:push_y")
    /\ UNCHANGED <<disk, result, gp_lock, omp>>

AddSamplePushY(t, i) ==
    /\ Running /\ At(t, "AddSample:push_y")
    /\ gp' = [gp EXCEPT ![i].m_LabelVectors = Append(@, thread[t].y)]
    /\ Goto(t, "AddSample:flag")
    /\ UNCHANGED <<disk, result, gp_lock, omp>>

AddSampleFlag(t, i) ==
    /\ Running /\ At(t, "AddSample:flag")
    /\ gp' = [gp EXCEPT ![i].m_Initialized = FALSE]
    /\ Return(t, "AddSample", "ok")
    /\ UNCHANGED <<disk, gp_lock, omp>>

AddSampleStep(t, i) ==
    \/ AddSampleDims(t, i)
    \/ AddSampleCheck(t, i)
    \/ AddSamplePushX(t, i)
    \/ AddSamplePushY(t, i)
    \/ AddSampleFlag(t, i)

\* Predict, statement by statement: Initialize (its test, the kernel matrix,
\* the label matrix and the solve, the flag), the dimension check, the
\* kernel vector, the product
\* Predict taking the model's lock on entry
CallPredictLocking(t, x) ==
    /\ Running /\ At(t, "idle")
    /\ gp_lock[1] = NoThread
    /\ gp_lock' = [gp_lock EXCEPT ![1] = t]
    /\ thread' = [thread EXCEPT ![t] = [Idle EXCEPT !.pc = "Predict:init", !.x = x]]
    /\ UNCHANGED <<gp, disk, result, omp>>

CallPredict(t, x) ==
    /\ Running /\ At(t, "idle")
    /\ thread' = [thread EXCEPT ![t] = [Idle EXCEPT !.pc = "Predict:init", !.x = x]]
    /\ UNCHANGED <<gp, disk, result, gp_lock, omp>>

PredictInit(t, i) ==
    /\ Running /\ At(t, "Predict:init")
    /\ IF gp[i].m_Initialized THEN Goto(t, "Predict:check") /\ UNCHANGED result
       ELSE IF ~(Len(gp[i].m_SampleVectors) > 0) \/ ~(Len(gp[i].m_LabelVectors) > 0)
            THEN Return(t, "Predict", "NotInitialized")
       ELSE Goto(t, "Predict:kernel") /\ UNCHANGED result
    /\ UNCHANGED <<gp, disk, gp_lock, omp>>

PredictKernelMatrix(t, i) ==
    /\ Running /\ At(t, "Predict:kernel")
    /\ \/ /\ thread' = [thread EXCEPT ![t].pc = "Predict:solve",
                                        ![t].K = [samples |-> gp[i].m_SampleVectors,
                                                  kernel |-> gp[i].m_Kernel,
                                                  sigma |-> gp[i].m_Sigma]]
          /\ UNCHANGED result
       \/ SampleRace(t) /\ Abort(t, "Predict")
    /\ UNCHANGED <<gp, disk, gp_lock, omp>>

PredictSolve(t, i) ==
    /\ Running /\ At(t, "Predict:solve")
    /\ LET K == thread[t].K
           n == Len(K.samples)
           Y == gp[i].m_LabelVectors
           defined == n = Len(Y) /\ SameSize(Y) /\ ~LabelRace(t)
       IN  \/ /\ gp' = [gp EXCEPT ![i].m_RegressionVectors =
                            IF defined
                            THEN [rows |-> n, cols |-> Len(Y[1]),
                                  val |-> <<K.samples, K.kernel, K.sigma, Y>>]
                            ELSE GarbageMatrix(n, Len(Y[1]))]
              /\ Goto(t, "Predict:flag")
              /\ UNCHANGED result
           \/ ~defined /\ Abort(t, "Predict") /\ UNCHANGED gp
    /\ UNCHANGED <<disk, gp_lock, omp>>

PredictFlag(t, i) ==
    /\ Running /\ At(t, "Predict:flag")
    /\ gp' = [gp EXCEPT ![i].m_Initialized = TRUE]
    /\ Goto(t, "Predict:check")
    /\ UNCHANGED <<disk, result, gp_lock, omp>>

PredictCheck(t, i) ==
    /\ Running /\ At(t, "Predict:check")
    /\ IF CheckInputDimension(gp[i], thread[t].x)
       THEN Goto(t, "Predict:Kx") /\ UNCHANGED result
       ELSE Return(t, "Predict", "DimensionMismatch")
    /\ UNCHANGED <<gp, disk, gp_lock, omp>>

PredictKernelVector(t, i) ==
    /\ Running /\ At(t, "Predict:Kx")
    /\ IF ~gp[i].m_Initialized THEN Return(t, "Predict", "NotInitialized")
       ELSE LET rows == gp[i].m_RegressionVectors.rows
                defined == ComputeKernelVectorDefined(gp[i]) /\ ~SampleRace(t)
            IN  \/ /\ thread' = [thread EXCEPT ![t].pc = "Predict:product",
                                                ![t].K = [rows |-> rows]]
                   /\ UNCHANGED result
                \/ ~defined /\ Abort(t, "Predict")
    /\ UNCHANGED <<gp, disk, gp_lock, omp>>

PredictProduct(t, i) ==
    /\ Running /\ At(t, "Predict:product")
    /\ \/ Return(t, "Predict", "ok")
       \/ thread[t].K.rows # gp[i].m_RegressionVectors.rows /\ Abort(t, "Predict")
    /\ UNCHANGED <<gp, disk, gp_lock, omp>>

PredictStep(t, i) ==
    \/ PredictInit(t, i)
    \/ PredictKernelMatrix(t, i)
    \/ PredictSolve(t, i)
    \/ PredictFlag(t, i)
    \/ PredictCheck(t, i)
    \/ PredictKernelVector(t, i)
    \/ PredictProduct(t, i)

\* what can be missing or cut when Load runs: nothing, one file, or the
\* parameter line after its first tokens (MaxTokens: the whole line)
MaxTokens == 9

Damage ==
    {<<{}, MaxTokens>>} \cup {<<{f}, MaxTokens>> : f \in Files}
    \cup {<<{}, k>> : k \in {0, 1, 3, 5}}

Init ==
    /\ gp = [i \in Models |-> NewGaussianProcess(GaussianKernel(One, One))]
    /\ disk = EmptyDisk
    /\ result = [op |-> "none", status |-> "none"]
    /\ Unlocked

(***************************************************************************)
(* Spec: one model, its samples of either dimension, training, prediction  *)
(* and persistence with every way a Load can fail.                         *)
(***************************************************************************)
Next ==
    \/ \E x \in DimVectors, y \in LabelVectors : AddSample(1, x, y)
    \/ \E k \in {GaussianKernel(One, One), WhiteKernel(One)} : SetKernel(1, k)
    \/ SetSigma(1, OnePlusUlp)
    \/ Initialize(1)
    \/ \E x \in DimVectors : Predict(1, x)
    \/ \E x \in DimVectors : PredictDerivative(1, x)
    \/ Save(1)
    \/ \E dm \in Damage : Load(1, dm[1], dm[2])

Spec == Init /\ [][Next]_vars

(***************************************************************************)
(* SpecSetters: one model with every setter of the header.                 *)
(***************************************************************************)
NextSetters ==
    \/ \E x \in DimVectors : AddSample(1, x, <<Zero>>)
    \/ \E k \in {GaussianKernel(One, One), WhiteKernel(One)} : SetKernel(1, k)
    \/ SetSigma(1, One)
    \/ \E m \in InversionMethods : SetInversionMethod(1, m)
    \/ \E s \in BOOLEAN : SetEfficientStorage(1, s)
    \/ Initialize(1)
    \/ \E x \in DimVectors : Predict(1, x)
    \/ \E x \in DimVectors : PredictDerivative(1, x)
    \/ Save(1)
    \/ \E dm \in Damage : Load(1, dm[1], dm[2])

\* the files an earlier run left under the prefix: none, or those Save wrote
\* for a model trained on one sample
SavedEarlier ==
    LET g1 == AddSampleOutcome(NewGaussianProcess(GaussianKernel(One, One)),
                               <<Zero>>, <<Zero>>).g
    IN  UNION {SaveWrites(o.g, EmptyDisk) : o \in InitializeOutcomes(g1)}

InitSetters ==
    /\ gp = [i \in Models |-> NewGaussianProcess(GaussianKernel(One, One))]
    /\ disk \in {EmptyDisk} \cup SavedEarlier
    /\ result = [op |-> "none", status |-> "none"]
    /\ Unlocked

SpecSetters == InitSetters /\ [][NextSetters]_vars

(***************************************************************************)
(* SpecPair: model 1 is built, trained and saved; model 2, whatever it     *)
(* holds, loads what model 1 saved; the two are compared.                  *)
(***************************************************************************)
NextPair ==
    \/ AddSample(1, <<One>>, <<Zero>>)
    \/ SetSigma(1, OnePlusUlp)
    \/ SetKernel(1, PeriodicKernel(One, One, One))
    \/ Initialize(1)
    \/ Save(1)
    \/ \E x \in {<<One>>, <<Zero, Zero>>} : AddSample(2, x, <<Zero>>)
    \/ SetSigma(2, One)
    \/ SetInversionMethod(2, "JacobiSVD")
    \/ SetEfficientStorage(2, TRUE)
    \/ DebugOn(2)
    \/ Initialize(2)
    \/ Load(2, {}, MaxTokens)
    \/ \E i \in Models, j \in Models : Compare(i, j)

SpecPair == Init /\ [][NextPair]_vars

(***************************************************************************)
(* SpecLocked: two caller threads on model 1, each making its calls only   *)
(* between Lock() and UnLock().                                            *)
(***************************************************************************)
Bracketed(t, i) == gp_lock[i] = t

NextLocked ==
    \E t \in Threads :
        \/ Lock(t, 1)
        \/ UnLock(t, 1)
        \/ Bracketed(t, 1) /\ CallAddSample(t, 1, <<Zero>>, <<Zero>>)
        \/ Bracketed(t, 1) /\ \E x \in DimVectors : CallPredict(t, x)
        \/ Bracketed(t, 1) /\ At(t, "idle") /\ Save(1)
        \/ Bracketed(t, 1) /\ At(t, "idle") /\ \E dm \in Damage : Load(1, dm[1], dm[2])
        \/ AddSampleStep(t, 1)
        \/ PredictStep(t, 1)

SpecLocked == Init /\ [][NextLocked]_vars

(***************************************************************************)
(* SpecRace: thread 1 adds samples to model 1 while thread 2 predicts from *)
(* it, neither taking the lock.                                            *)
(***************************************************************************)
NextRace ==
    \/ \E x \in DimVectors : CallAddSample(1, 1, x, <<Zero>>)
    \/ AddSampleStep(1, 1)
    \/ \E x \in DimVectors : CallPredict(2, x)
    \/ PredictStep(2, 1)

SpecRace == Init /\ [][NextRace]_vars

(***************************************************************************)
(* SpecKernelMatrix: ComputeKernelMatrix over the stored samples.  The     *)
(* parallel loop gives row i to worker i; the worker walks the columns     *)
(* j = i .. n and for each evaluates the kernel, writes M(i,j), writes     *)
(* M(j,i).  omp.M is the matrix, omp.writes and omp.writers count the      *)
(* writes of each cell and who made them, omp.evals counts the kernel      *)
(* evaluations of each pair of rows.                                       *)
(***************************************************************************)
MaxRows == 3

\* (*m_Kernel)(a, b): a symmetric function of its two arguments
KernelValue(k, a, b) == [kernel |-> k, args |-> {a, b}]

Unset == [kernel |-> "unset", args |-> {}]

Rows == 1..Len(gp[1].m_SampleVectors)

Cells == Rows \X Rows

\* the first column worker i visits
FirstColumnOne(i) == 1

FirstColumn(i) == i

Fork ==
    /\ Running /\ omp = NoRegion /\ result.op = "none"
    /\ omp' = [worker |-> [i \in Rows |-> [j |-> FirstColumn(i), pc |-> "eval", v |-> Unset]],
               M |-> [c \in Cells |-> Unset],
               writes |-> [c \in Cells |-> 0],
               writers |-> [c \in Cells |-> {}],
               evals |-> [pr \in {{c[1], c[2]} : c \in Cells} |-> 0]]
    /\ UNCHANGED <<gp, disk, result, gp_lock, thread>>

Working(i) == Running /\ omp # NoRegion /\ i \in DOMAIN omp.worker

Evaluate(i) ==
    /\ Working(i) /\ omp.worker[i].pc = "eval"
    /\ LET j == omp.worker[i].j
       IN  omp' = [omp EXCEPT !.worker[i].v = KernelValue(gp[1].m_Kernel,
                                                         gp[1].m_SampleVectors[i],
                                                         gp[1].m_SampleVectors[j]),
                              !.worker[i].pc = "upper",
                              !.evals[{i, j}] = @ + 1]
    /\ UNCHANGED <<gp, disk, result, gp_lock, thread>>

Write(i, c) ==
    [omp EXCEPT !.M[c] = omp.worker[i].v,
                !.writes[c] = @ + 1,
                !.writers[c] = @ \cup {i}]

WriteUpper(i) ==
    /\ Working(i) /\ omp.worker[i].pc = "upper"
    /\ omp' = [Write(i, <<i, omp.worker[i].j>>) EXCEPT !.worker[i].pc = "lower"]
    /\ UNCHANGED <<gp, disk, result, gp_lock, thread>>

WriteLower(i) ==
    /\ Working(i) /\ omp.worker[i].pc = "lower"
    /\ LET j == omp.worker[i].j
       IN  omp' = [Write(i, <<j, i>>) EXCEPT
                      !.worker[i].pc = IF j < Len(gp[1].m_SampleVectors) THEN "eval" ELSE "done",
                      !.worker[i].j = IF j < Len(gp[1].m_SampleVectors) THEN j + 1 ELSE j]
    /\ UNCHANGED <<gp, disk, result, gp_lock, thread>>

Joined == result.op = "ComputeKernelMatrix"

Join ==
    /\ Running /\ omp # NoRegion /\ ~Joined
    /\ \A i \in DOMAIN omp.worker : omp.worker[i].pc = "done"
    /\ result' = [op |-> "ComputeKernelMatrix", status |-> "ok"]
    /\ UNCHANGED <<gp, disk, gp_lock, thread, omp>>

\* Initialize calls ComputeRegressionVectors only with a sample in the store
SampleLists ==
    UNION {[1..n -> {<<Zero>>, <<One>>}] : n \in 1..MaxRows}

InitKernelMatrix ==
    /\ \E xs \in SampleLists :
          gp = [i \in Models |->
                  [NewGaussianProcess(GaussianKernel(One, One)) EXCEPT
                      !.m_SampleVectors = xs,
                      !.m_LabelVectors = [n \in 1..Len(xs) |-> <<Zero>>],
                      !.m_InputDimension = 1,
                      !.m_OutputDimension = 1]]
    /\ disk = EmptyDisk
    /\ result = [op |-> "none", status |-> "none"]
    /\ Unlocked

NextKernelMatrix ==
    \/ Fork
    \/ \E i \in 1..MaxRows : Evaluate(i)
    \/ \E i \in 1..MaxRows : WriteUpper(i)
    \/ \E i \in 1..MaxRows : WriteLower(i)
    \/ Join

SpecKernelMatrix == InitKernelMatrix /\ [][NextKernelMatrix]_vars

(***************************************************************************)
(* Properties.                                                             *)
(***************************************************************************)
Stored(g) == Len(g.m_SampleVectors) > 0 /\ Len(g.m_LabelVectors) > 0

\* the store of C9: as many labels as samples, every sample of size d_in,
\* every label of size d_out
WellFormedStore(g) ==
    /\ Len(g.m_SampleVectors) = Len(g.m_LabelVectors)
    /\ \A i \in 1..Len(g.m_SampleVectors) : Len(g.m_SampleVectors[i]) = g.m_InputDimension
    /\ \A i \in 1..Len(g.m_LabelVectors) : Len(g.m_LabelVectors[i]) = g.m_OutputDimension

\* the coefficients that belong to the contents of g
CoefficientsOf(g) ==
    [rows |-> Len(g.m_SampleVectors), cols |-> g.m_OutputDimension,
     val |-> <<g.m_SampleVectors, g.m_Kernel, g.m_Sigma, g.m_LabelVectors>>]

\* C1: once a model holds a sample pair it holds one for ever, and an
\* AddSample(x, y) on such a model with |x| # d_in or |y| # d_out raises
\* DimensionMismatch and changes no field of the model.
C1_RejectedAddSampleChangesNothing ==
    [][/\ Stored(gp[1]) => Stored(gp'[1])
       /\ \A x \in InputVectors, y \in LabelVectors :
            (/\ AddSample(1, x, y)
             /\ Stored(gp[1])
             /\ (Len(x) # gp[1].m_InputDimension \/ Len(y) # gp[1].m_OutputDimension))
            => (result'.status = "DimensionMismatch" /\ gp' = gp)]_vars

C1_Witness ==
    /\ result = [op |-> "AddSample", status |-> "DimensionMismatch"]
    /\ Stored(gp[1])
    /\ gp[1].m_Initialized

\* C2 as claimed: after every successful AddSample, SetKernel, SetSigma or
\* SetEfficientStorage the model is Dirty.
C2_DirtyAfterEveryMutation ==
    [][(/\ result'.op \in {"AddSample", "SetKernel", "SetSigma", "SetEfficientStorage"}
        /\ result'.status = "ok")
       => ~gp'[1].m_Initialized]_vars

\* C2 as amended: after every successful AddSample, SetKernel or SetSigma the
\* model is Dirty; SetEfficientStorage leaves the Dirty/Ready flag as it was.
C2_DirtyAfterStoreKernelSigma ==
    [][/\ (/\ result'.op \in {"AddSample", "SetKernel", "SetSigma"}
            /\ result'.status = "ok")
           => ~gp'[1].m_Initialized
       /\ result'.op = "SetEfficientStorage"
           => gp'[1].m_Initialized = gp[1].m_Initialized]_vars

C2_Witness ==
    /\ result.op \in {"AddSample", "SetKernel", "SetSigma"}
    /\ result.status = "ok"
    /\ ~gp[1].m_Initialized
    /\ gp[1].m_RegressionVectors.rows > 0

C4_SaveOnDirtyFails ==
    [][(result'.op = "Save" /\ ~gp[1].m_Initialized)
       => /\ result'.status = "PreconditionViolation"
          /\ disk' = disk
          /\ gp' = gp]_vars

C4_Witness ==
    /\ result = [op |-> "Save", status |-> "PreconditionViolation"]
    /\ Len(gp[1].m_SampleVectors) > 0
    /\ ~gp[1].m_Initialized

\* C5: whenever the sample store is empty the model is Dirty, and Initialize,
\* Predict, PredictDerivative and Save can only raise a failure and leave the
\* model Dirty.
C5_EmptyStoreOnlyFails ==
    Len(gp[1].m_SampleVectors) = 0 =>
        /\ ~gp[1].m_Initialized
        /\ \A o \in InitializeOutcomes(gp[1]) :
              o.status = "NotInitialized" /\ ~o.g.m_Initialized
        /\ \A x \in InputVectors :
              \A o \in PredictOutcomes(gp[1], x) \cup PredictDerivativeOutcomes(gp[1], x) :
                 o.status = "NotInitialized" /\ ~o.g.m_Initialized
        /\ \A o \in SaveOutcomes(gp[1], disk) :
              o.status = "PreconditionViolation" /\ ~o.g.m_Initialized /\ o.disk = disk

\* an empty store whose coefficients a failed Load has replaced, and Predict
\* has then raised NotInitialized
C5_Witness ==
    /\ Len(gp[1].m_SampleVectors) = 0
    /\ gp[1].m_RegressionVectors.rows > 0
    /\ result = [op |-> "Predict", status |-> "NotInitialized"]

\* C6: a Load that fails leaves every field of the model as it was.
C6_FailedLoadChangesNothing ==
    [][(result'.op = "Load" /\ result'.status # "ok") => gp' = gp]_vars

\* C8: whenever the model is Ready its coefficients are those of its current
\* samples, labels, kernel and sigma, with one row per stored sample and
\* d_out columns.
C8_ReadyCoefficientsAreCurrent ==
    gp[1].m_Initialized => gp[1].m_RegressionVectors = CoefficientsOf(gp[1])

\* C9: in every reachable state there are as many labels as samples, every
\* sample has size d_in and every label has size d_out.
C9_StoreWellFormed == WellFormedStore(gp[1])

\* C7: when model 2 loads the files that Save wrote for a Ready model 1 with
\* a Gaussian or Periodic kernel, the Load succeeds, model 2 is Ready and
\* model 1 == model 2 is true.
C7_SaveLoadRoundTrip ==
    [][(/\ Load(2, {}, MaxTokens)
        /\ gp[1].m_Initialized
        /\ gp[1].m_Kernel.name \in {"GaussianKernel", "PeriodicKernel"}
        /\ disk \in SaveWrites(gp[1], disk))
       => /\ result'.status = "ok"
          /\ gp'[2].m_Initialized
          /\ EqualOutcomes(gp'[1], gp'[2]) = {"true"}]_vars

\* the fields operator== is to compare
SameFields(a, b) ==
    /\ a.m_RegressionVectors = b.m_RegressionVectors
    /\ a.m_SampleVectors = b.m_SampleVectors
    /\ a.m_LabelVectors = b.m_LabelVectors
    /\ a.m_Kernel = b.m_Kernel
    /\ a.m_Sigma = b.m_Sigma
    /\ a.m_Initialized = b.m_Initialized
    /\ a.m_InputDimension = b.m_InputDimension
    /\ a.m_OutputDimension = b.m_OutputDimension
    /\ a.debug = b.debug

\* C10: a comparison returns true when the two models agree on every
\* compared field and false when they differ on any of them, whatever their
\* inversion methods and efficient-storage flags.
C10_StrictValueEquality ==
    [][\A i \in Models, j \in Models :
         Compare(i, j) =>
            result'.status = IF SameFields(gp[i], gp[j]) THEN "true" ELSE "false"]_vars

\* C11: on a Ready model Predict(x) and PredictDerivative(x, D) with
\* |x| = d_in return a prediction and change no field of the model; the
\* value returned is determined by the model and x (so a second call returns
\* it again) and is the same for both operations.
C11_ReadyPredictionIsReadOnly ==
    [][\A x \in DimVectors :
         (/\ gp[1].m_Initialized
          /\ CheckInputDimension(gp[1], x)
          /\ (Predict(1, x) \/ PredictDerivative(1, x)))
         => /\ result'.status = "ok"
            /\ gp' = gp
            /\ Cardinality(PredictReturns(gp'[1], x)) = 1
            /\ PredictDerivativeReturns(gp'[1], x) = PredictReturns(gp[1], x)]_vars

\* C12: on a model that holds a sample, Dirty or Ready, Predict(x) and
\* PredictDerivative(x, D) with |x| # d_in raise DimensionMismatch and change
\* no field of the model, the flag and the coefficients included.
C12_RejectedPredictionChangesNothing ==
    [][\A x \in DimVectors :
         (/\ Len(gp[1].m_SampleVectors) > 0
          /\ ~CheckInputDimension(gp[1], x)
          /\ (Predict(1, x) \/ PredictDerivative(1, x)))
         => /\ result'.status = "DimensionMismatch"
            /\ gp' = gp]_vars

\* the coefficients of g were trained on exactly the samples and labels
\* that g holds
TrainedOnStore(g) ==
    /\ g.m_RegressionVectors.rows = Len(g.m_SampleVectors)
    /\ Len(g.m_RegressionVectors.val) = 4
    /\ g.m_RegressionVectors.val[1] = g.m_SampleVectors
    /\ g.m_RegressionVectors.val[4] = g.m_LabelVectors

\* C13: when every thread makes its calls between Lock() and UnLock(), a
\* thread inside a call holds the lock (so the calls of two threads never
\* overlap and the brackets run one after another), a thread inside a call
\* can always take its next step (no engine operation waits for the lock),
\* and a Predict that reaches its product uses coefficients trained on
\* exactly the samples the model holds at that moment.
C13_BracketedCallsAreSerial ==
    \A t \in Threads :
        /\ ~At(t, "idle") => Bracketed(t, 1)
        /\ (Running /\ ~At(t, "idle")) => ENABLED (AddSampleStep(t, 1) \/ PredictStep(t, 1))
        /\ At(t, "Predict:product") => TrainedOnStore(gp[1])

\* the kernel matrix the region has to build
KernelMatrixCell(c) ==
    KernelValue(gp[1].m_Kernel, gp[1].m_SampleVectors[c[1]], gp[1].m_SampleVectors[c[2]])

\* what holds of every build whatever the number of writes of a cell: no
\* cell is ever written by two workers, and after the join each pair of
\* rows was evaluated once and M[i][j] = M[j][i] = Kernel(x_i, x_j)
KernelMatrixBuilt(writesOf(_)) ==
    omp # NoRegion =>
        /\ \A c \in Cells : Cardinality(omp.writers[c]) <= 1
        /\ \A c \in Cells : omp.writes[c] <= writesOf(c)
        /\ Joined =>
              \A c \in Cells :
                  /\ omp.writes[c] = writesOf(c)
                  /\ Cardinality(omp.writers[c]) = 1
                  /\ omp.evals[{c[1], c[2]}] = 1
                  /\ omp.M[c] = omp.M[<<c[2], c[1]>>]
                  /\ omp.M[c] = KernelMatrixCell(c)

OnceEach(c) == 1

OnceOffDiagonalTwiceOnDiagonal(c) == IF c[1] = c[2] THEN 2 ELSE 1

\* C14 (as stated): under every interleaving of the row workers each cell
\* of M is written exactly once and by one worker only, each pair of rows
\* is evaluated once, and after the join M[i][j] = M[j][i] = Kernel(x_i, x_j).
C14_EveryCellWrittenOnce == KernelMatrixBuilt(OnceEach)

\* C14 (amended): as above, except that a diagonal cell M[i][i] is written
\* twice, both times by worker i and with the same value (j = i makes
\* M(i,j) and M(j,i) the same cell); every other cell is written once.
C14_EveryCellHasOneWriter == KernelMatrixBuilt(OnceOffDiagonalTwiceOnDiagonal)

\* a build over three rows with two different samples has joined
C14_Witness ==
    /\ Joined
    /\ Len(gp[1].m_SampleVectors) >= 3
    /\ gp[1].m_SampleVectors[1] # gp[1].m_SampleVectors[2]

\* C15: with no caller locking nothing orders the statements of AddSample
\* and Predict: no step of either takes gp_lock, a thread inside either call
\* can always take its next statement whatever the other thread is doing,
\* and the coefficients the model holds never have more rows than there
\* are samples (they fall behind the store, they never run ahead of it).
C15_EngineTakesNoLock ==
    /\ gp_lock[1] = NoThread
    /\ (Running /\ ~At(1, "idle")) => ENABLED AddSampleStep(1, 1)
    /\ (Running /\ ~At(2, "idle")) => ENABLED PredictStep(2, 1)
    /\ gp[1].m_RegressionVectors.rows <= Len(gp[1].m_SampleVectors)

\* the race: Predict has passed the Ready check of its kernel vector and is
\* at its product while the store holds another number of samples than the
\* coefficients have rows
C15_Witness ==
    /\ At(2, "Predict:product")
    /\ gp[1].m_RegressionVectors.rows # Len(gp[1].m_SampleVectors)

====
